---- MODULE Spec2Model ----
(***************************************************************************)
(* examples-integrations/python: the kanban data records (TimerEntry,      *)
(* KanbanTask, ColumnMetadata, KanbanData), their to_dict / to_json        *)
(* conversions, and the "simple format" conversion of example.py.          *)
(*                                                                         *)
(* Python values are modelled as follows.                                  *)
(*   - An Optional[...] field holds None (the empty tuple) or Some(x) (the *)
(*     one-element tuple <<x>>), so that None, an empty list and False are *)
(*     three different values, as they are in Python.                      *)
(*   - A value placed in a returned dict is a tagged record [t, v]: a str, *)
(*     None, a bool, an int, a list or dict created by the call, or a      *)
(*     "ref": the very list/dict object a record field holds (Python       *)
(*     assigns references, `result["tags"] = self.tags` copies nothing).   *)
(*   - A dict is the sequence of its (key, value) items in insertion       *)
(*     order, which is the order Python dicts keep and json.dumps writes.  *)
(***************************************************************************)
EXTENDS Integers, Sequences, FiniteSets, TLC

\* Longest list (and largest dict) a caller passes in a field.
MaxLen == 2
\* Most optional keyword arguments in a call whose arguments come in every order.
MaxKw == 2
\* Most optional keyword arguments in a call whose arguments take every value.
MaxVaried == 1
\* Most changes a caller makes to the values a record's to_dict returned to it.
MaxMut == 1

\* The threads that call the conversions on the one shared record.
Threads == {"t1", "t2"}

VARIABLES
    kwargs,   \* the keyword arguments the record was constructed from, in call order
    rec,      \* the record under conversion: [cls, obj]
    ret,      \* per thread, what its call produced: [op, val, text] (op "none" before it)
    muts      \* how many times a caller changed a returned value

vars == <<kwargs, rec, ret, muts>>

----------------------------------------------------------------------------
(* Python values *)

None == <<>>
Some(x) == <<x>>

PyStr(s) == [t |-> "str", v |-> s]
PyNone == [t |-> "none", v |-> "None"]
PyBool(b) == [t |-> "bool", v |-> b]
PyInt(n) == [t |-> "int", v |-> n]
PyList(xs) == [t |-> "list", v |-> xs]
PyDict(items) == [t |-> "dict", v |-> items]
PyRef(oid, fld) == [t |-> "ref", v |-> [oid |-> oid, field |-> fld]]

\* The Python value of an Optional[str] field.
OptStr(o) == IF o = None THEN PyNone ELSE PyStr(o[1])

Keys(d) == [i \in 1..Len(d.v) |-> d.v[i][1]]
KeySet(d) == {d.v[i][1] : i \in 1..Len(d.v)}
HasKey(d, k) == k \in KeySet(d)
GetItem(d, k) == d.v[CHOOSE i \in 1..Len(d.v) : d.v[i][1] = k][2]

\* d[k] = val on a dict: a new key goes last, an existing key keeps its place.
SetItem(d, k, val) ==
    IF HasKey(d, k)
    THEN PyDict([i \in 1..Len(d.v) |-> IF d.v[i][1] = k THEN <<k, val>> ELSE d.v[i]])
    ELSE PyDict(Append(d.v, <<k, val>>))

----------------------------------------------------------------------------
(* The enumerations: member name |-> value *)

ColumnState ==
    [TODO |-> "todo", IN_PROGRESS |-> "in-progress", PENDING |-> "pending", DONE |-> "done"]

SortField ==
    [UPDATE_DATE_TIME |-> "updateDateTime", DUE_DATE |-> "dueDate", TITLE |-> "title",
     TIME_SPENT |-> "timeSpent"]

SortOrder == [ASC |-> "asc", DESC |-> "desc"]

KanbanView == [HORIZONTAL |-> "horizontal", VERTICAL |-> "vertical", TABLE |-> "table"]

----------------------------------------------------------------------------
(* The dataclasses: the generated __init__ binds each keyword argument to  *)
(* the field of its name, whatever the order of the call, and gives an     *)
(* unnamed field its declared default.                                     *)

Supplied(kw, name) == \E i \in 1..Len(kw) : kw[i][1] = name
Arg(kw, name) == kw[CHOOSE i \in 1..Len(kw) : kw[i][1] = name][2]
ArgOr(kw, name, default) == IF Supplied(kw, name) THEN Arg(kw, name) ELSE default

TimerEntry(kw) ==
    [start_time |-> Arg(kw, "start_time")[1],
     end_time |-> ArgOr(kw, "end_time", None)]

\* oid is the object's identity: 0 for the record under conversion, the position
\* in its list for a task held in a list.
KanbanTask(kw) ==
    [oid |-> 0,
     task |-> Arg(kw, "task")[1],
     status |-> ArgOr(kw, "status", None),
     timer_entries |-> ArgOr(kw, "timer_entries", None),
     target_time |-> ArgOr(kw, "target_time", None),
     tags |-> ArgOr(kw, "tags", None),
     due_date |-> ArgOr(kw, "due_date", None),
     update_date_time |-> ArgOr(kw, "update_date_time", None)]

\* As ColumnMetadata below, with another member as the default of state.
ColumnMetadata_default_pending(kw) ==
    [name |-> Arg(kw, "name")[1],
     state |-> ArgOr(kw, "state", Some("PENDING"))[1],
     icon |-> ArgOr(kw, "icon", None),
     sort_field |-> ArgOr(kw, "sort_field", None),
     sort_order |-> ArgOr(kw, "sort_order", None),
     manual_sort |-> ArgOr(kw, "manual_sort", None)]

ColumnMetadata(kw) ==
    [name |-> Arg(kw, "name")[1],
     state |-> ArgOr(kw, "state", Some("TODO"))[1],
     icon |-> ArgOr(kw, "icon", None),
     sort_field |-> ArgOr(kw, "sort_field", None),
     sort_order |-> ArgOr(kw, "sort_order", None),
     manual_sort |-> ArgOr(kw, "manual_sort", None)]

KanbanData(kw) ==
    [oid |-> 0,
     tasks |-> ArgOr(kw, "tasks", None),
     columns |-> ArgOr(kw, "columns", None),
     column_metadata |-> ArgOr(kw, "column_metadata", None),
     collapsed_columns |-> ArgOr(kw, "collapsed_columns", None),
     view |-> ArgOr(kw, "view", None),
     slim_mode |-> ArgOr(kw, "slim_mode", None),
     column_widths |-> ArgOr(kw, "column_widths", None)]

----------------------------------------------------------------------------
(* to_dict *)
(* Each method starts a dict and then, one `if` after the other, assigns   *)
(* to a key the dict does not hold yet: the new item goes last. The result *)
(* is the items of the statements that ran, in statement order.            *)

Item(k, val) == << <<k, val>> >>
NoItem == << >>

\* As TimerEntry_to_dict below, with the fields' own names as keys.
TimerEntry_to_dict_snake(self) ==
    PyDict(Item("start_time", PyStr(self.start_time))
           \o Item("end_time", OptStr(self.end_time)))

TimerEntry_to_dict(self) ==
    PyDict(Item("startTime", PyStr(self.start_time))
           \o Item("endTime", OptStr(self.end_time)))

\* As KanbanTask_to_dict below, with `if self.x:` for `if self.x is not None:`,
\* which skips an empty list.
KanbanTask_to_dict_truthy(self) ==
    PyDict(Item("task", PyStr(self.task))
           \o (IF self.status # None
               THEN Item("status", PyStr(self.status[1])) ELSE NoItem)
           \o (IF self.timer_entries # None /\ self.timer_entries # Some(<< >>)
               THEN Item("timerEntries",
                        PyList([i \in 1..Len(self.timer_entries[1]) |->
                                   TimerEntry_to_dict(self.timer_entries[1][i])]))
               ELSE NoItem)
           \o (IF self.target_time # None
               THEN Item("targetTime", PyStr(self.target_time[1])) ELSE NoItem)
           \o (IF self.tags # None /\ self.tags # Some(<< >>)
               THEN Item("tags", PyRef(self.oid, "tags")) ELSE NoItem)
           \o (IF self.due_date # None
               THEN Item("dueDate", PyStr(self.due_date[1])) ELSE NoItem)
           \o (IF self.update_date_time # None
               THEN Item("updateDateTime", PyStr(self.update_date_time[1])) ELSE NoItem))

\* As KanbanTask_to_dict below, with the statements for tags and due_date swapped.
KanbanTask_to_dict_reordered(self) ==
    PyDict(Item("task", PyStr(self.task))
           \o (IF self.status # None
               THEN Item("status", PyStr(self.status[1])) ELSE NoItem)
           \o (IF self.timer_entries # None
               THEN Item("timerEntries",
                        PyList([i \in 1..Len(self.timer_entries[1]) |->
                                   TimerEntry_to_dict(self.timer_entries[1][i])]))
               ELSE NoItem)
           \o (IF self.target_time # None
               THEN Item("targetTime", PyStr(self.target_time[1])) ELSE NoItem)
           \o (IF self.due_date # None
               THEN Item("dueDate", PyStr(self.due_date[1])) ELSE NoItem)
           \o (IF self.tags # None
               THEN Item("tags", PyRef(self.oid, "tags")) ELSE NoItem)
           \o (IF self.update_date_time # None
               THEN Item("updateDateTime", PyStr(self.update_date_time[1])) ELSE NoItem))

KanbanTask_to_dict(self) ==
    PyDict(Item("task", PyStr(self.task))
           \o (IF self.status # None
               THEN Item("status", PyStr(self.status[1])) ELSE NoItem)
           \o (IF self.timer_entries # None
               THEN Item("timerEntries",
                        PyList([i \in 1..Len(self.timer_entries[1]) |->
                                   TimerEntry_to_dict(self.timer_entries[1][i])]))
               ELSE NoItem)
           \o (IF self.target_time # None
               THEN Item("targetTime", PyStr(self.target_time[1])) ELSE NoItem)
           \o (IF self.tags # None
               THEN Item("tags", PyRef(self.oid, "tags")) ELSE NoItem)
           \o (IF self.due_date # None
               THEN Item("dueDate", PyStr(self.due_date[1])) ELSE NoItem)
           \o (IF self.update_date_time # None
               THEN Item("updateDateTime", PyStr(self.update_date_time[1])) ELSE NoItem))

\* As ColumnMetadata_to_dict below, with the members' names (.name) for their
\* values (.value).
ColumnMetadata_to_dict_names(self) ==
    PyDict(Item("name", PyStr(self.name))
           \o Item("state", PyStr(self.state))
           \o (IF self.icon # None
               THEN Item("icon", PyStr(self.icon[1])) ELSE NoItem)
           \o (IF self.sort_field # None
               THEN Item("sortField", PyStr(self.sort_field[1])) ELSE NoItem)
           \o (IF self.sort_order # None
               THEN Item("sortOrder", PyStr(self.sort_order[1])) ELSE NoItem)
           \o (IF self.manual_sort # None
               THEN Item("manualSort", PyBool(self.manual_sort[1])) ELSE NoItem))

ColumnMetadata_to_dict(self) ==
    PyDict(Item("name", PyStr(self.name))
           \o Item("state", PyStr(ColumnState[self.state]))
           \o (IF self.icon # None
               THEN Item("icon", PyStr(self.icon[1])) ELSE NoItem)
           \o (IF self.sort_field # None
               THEN Item("sortField", PyStr(SortField[self.sort_field[1]])) ELSE NoItem)
           \o (IF self.sort_order # None
               THEN Item("sortOrder", PyStr(SortOrder[self.sort_order[1]])) ELSE NoItem)
           \o (IF self.manual_sort # None
               THEN Item("manualSort", PyBool(self.manual_sort[1])) ELSE NoItem))

\* As KanbanData_to_dict below, with `if self.x:` for `if self.x is not None:`,
\* which skips False, an empty list and an empty dict.
KanbanData_to_dict_truthy(self) ==
    PyDict((IF self.tasks # None /\ self.tasks # Some(<< >>)
            THEN Item("tasks",
                     PyList([i \in 1..Len(self.tasks[1]) |->
                                KanbanTask_to_dict(self.tasks[1][i])]))
            ELSE NoItem)
           \o (IF self.columns # None /\ self.columns # Some(<< >>)
               THEN Item("columns", PyRef(self.oid, "columns")) ELSE NoItem)
           \o (IF self.column_metadata # None /\ self.column_metadata # Some(<< >>)
               THEN Item("columnMetadata",
                        PyList([i \in 1..Len(self.column_metadata[1]) |->
                                   ColumnMetadata_to_dict(self.column_metadata[1][i])]))
               ELSE NoItem)
           \o (IF self.collapsed_columns # None /\ self.collapsed_columns # Some(<< >>)
               THEN Item("collapsedColumns", PyRef(self.oid, "collapsed_columns"))
               ELSE NoItem)
           \o (IF self.view # None
               THEN Item("view", PyStr(KanbanView[self.view[1]])) ELSE NoItem)
           \o (IF self.slim_mode # None /\ self.slim_mode # Some(FALSE)
               THEN Item("slimMode", PyBool(self.slim_mode[1])) ELSE NoItem)
           \o (IF self.column_widths # None /\ self.column_widths # Some(<< >>)
               THEN Item("columnWidths", PyRef(self.oid, "column_widths")) ELSE NoItem))

KanbanData_to_dict(self) ==
    PyDict((IF self.tasks # None
            THEN Item("tasks",
                     PyList([i \in 1..Len(self.tasks[1]) |->
                                KanbanTask_to_dict(self.tasks[1][i])]))
            ELSE NoItem)
           \o (IF self.columns # None
               THEN Item("columns", PyRef(self.oid, "columns")) ELSE NoItem)
           \o (IF self.column_metadata # None
               THEN Item("columnMetadata",
                        PyList([i \in 1..Len(self.column_metadata[1]) |->
                                   ColumnMetadata_to_dict(self.column_metadata[1][i])]))
               ELSE NoItem)
           \o (IF self.collapsed_columns # None
               THEN Item("collapsedColumns", PyRef(self.oid, "collapsed_columns"))
               ELSE NoItem)
           \o (IF self.view # None
               THEN Item("view", PyStr(KanbanView[self.view[1]])) ELSE NoItem)
           \o (IF self.slim_mode # None
               THEN Item("slimMode", PyBool(self.slim_mode[1])) ELSE NoItem)
           \o (IF self.column_widths # None
               THEN Item("columnWidths", PyRef(self.oid, "column_widths")) ELSE NoItem))

\* As simple_format below, over reversed(simple_tasks).
simple_format_reversed(simple_tasks) ==
    PyList([i \in 1..Len(simple_tasks) |->
               KanbanTask_to_dict(simple_tasks[Len(simple_tasks) + 1 - i])])

\* [task.to_dict() for task in simple_tasks]
simple_format(simple_tasks) ==
    PyList([i \in 1..Len(simple_tasks) |-> KanbanTask_to_dict(simple_tasks[i])])

----------------------------------------------------------------------------
(* References: reading the list or dict object a "ref" names *)

\* The object held by field r.field of the object whose identity is r.oid.
Deref(root, r) ==
    IF r.oid = 0 THEN root.obj[r.field][1]
    ELSE IF root.cls = "KanbanData" THEN root.obj.tasks[1][r.oid][r.field][1]
    ELSE root.obj[r.oid][r.field][1]

\* The Python value of that object: a Dict[str, int] or a List[str].
Contents(root, r) ==
    LET o == Deref(root, r)
    IN  IF r.field = "column_widths"
        THEN PyDict([i \in 1..Len(o) |-> <<o[i][1], PyInt(o[i][2])>>])
        ELSE PyList([i \in 1..Len(o) |-> PyStr(o[i])])

\* What a reader of value val sees: every reference followed.
RECURSIVE Resolve(_, _)
Resolve(val, root) ==
    CASE val.t = "ref" -> Contents(root, val.v)
      [] val.t = "list" -> PyList([i \in 1..Len(val.v) |-> Resolve(val.v[i], root)])
      [] val.t = "dict" ->
            PyDict([i \in 1..Len(val.v) |-> <<val.v[i][1], Resolve(val.v[i][2], root)>>])
      [] OTHER -> val

----------------------------------------------------------------------------
(* json.dumps(obj, indent=indent, ensure_ascii=False) *)

\* to_json's default indent
DefaultIndent == 2

RECURSIVE Spaces(_)
Spaces(n) == IF n <= 0 THEN "" ELSE " " \o Spaces(n - 1)

newline_indent(indent, level) == "\n" \o Spaces(indent * level)

RECURSIVE Join(_, _)
Join(parts, sep) ==
    IF Len(parts) = 0 THEN ""
    ELSE IF Len(parts) = 1 THEN parts[1]
    ELSE parts[1] \o sep \o Join(Tail(parts), sep)

\* The strings of the model hold no quote, backslash or control character, the
\* only characters json.dumps escapes when ensure_ascii is False.
RECURSIVE Encode(_, _, _)
Encode(val, indent, level) ==
    CASE val.t = "str" -> "\"" \o val.v \o "\""
      [] val.t = "none" -> "null"
      [] val.t = "bool" -> IF val.v THEN "true" ELSE "false"
      [] val.t = "int" -> ToString(val.v)
      [] val.t = "list" ->
            IF Len(val.v) = 0 THEN "[]"
            ELSE "[" \o newline_indent(indent, level + 1)
                 \o Join([i \in 1..Len(val.v) |-> Encode(val.v[i], indent, level + 1)],
                         "," \o newline_indent(indent, level + 1))
                 \o newline_indent(indent, level) \o "]"
      [] val.t = "dict" ->
            IF Len(val.v) = 0 THEN "{}"
            ELSE "{" \o newline_indent(indent, level + 1)
                 \o Join([i \in 1..Len(val.v) |->
                             "\"" \o val.v[i][1] \o "\": "
                             \o Encode(val.v[i][2], indent, level + 1)],
                         "," \o newline_indent(indent, level + 1))
                 \o newline_indent(indent, level) \o "}"

json_dumps(val, root, indent) == Encode(Resolve(val, root), indent, 0)

----------------------------------------------------------------------------
(* The calls that construct the record under conversion *)

Classes == {"TimerEntry", "KanbanTask", "ColumnMetadata", "KanbanData"}

\* The fields of each dataclass, in declaration order.
Fields(cls) ==
    CASE cls = "TimerEntry" -> <<"start_time", "end_time">>
      [] cls = "KanbanTask" ->
            <<"task", "status", "timer_entries", "target_time", "tags", "due_date",
              "update_date_time">>
      [] cls = "ColumnMetadata" ->
            <<"name", "state", "icon", "sort_field", "sort_order", "manual_sort">>
      [] cls = "KanbanData" ->
            <<"tasks", "columns", "column_metadata", "collapsed_columns", "view",
              "slim_mode", "column_widths">>

\* The fields without a default: a call must name them.
Required(cls) ==
    CASE cls = "TimerEntry" -> {"start_time"}
      [] cls = "KanbanTask" -> {"task"}
      [] cls = "ColumnMetadata" -> {"name"}
      [] cls = "KanbanData" -> {}

Defaulted(cls) == {Fields(cls)[i] : i \in 1..Len(Fields(cls))} \ Required(cls)

Construct(cls, kw) ==
    CASE cls = "TimerEntry" -> TimerEntry(kw)
      [] cls = "KanbanTask" -> KanbanTask(kw)
      [] cls = "ColumnMetadata" -> ColumnMetadata(kw)
      [] cls = "KanbanData" -> KanbanData(kw)

ListsUpTo(S, n) == {<< >>} \cup UNION {[1..k -> S] : k \in 1..n}

\* A list of tasks: each task is its own object.
WithIds(l) == [i \in 1..Len(l) |-> [l[i] EXCEPT !.oid = i]]

TimerRunning == TimerEntry(<< <<"start_time", Some("T09")>> >>)
TimerStopped == TimerEntry(<< <<"start_time", Some("T10")>>, <<"end_time", Some("T11")>> >>)
TimerEntries == {TimerRunning, TimerStopped}

TaskBare == KanbanTask(<< <<"task", Some("Task 1")>> >>)
TaskFull ==
    KanbanTask(<< <<"task", Some("Task 2")>>, <<"status", Some("Done")>>,
                  <<"timer_entries", Some(<<TimerStopped, TimerRunning>>)>>,
                  <<"target_time", Some("4h")>>, <<"tags", Some(<<"#b", "#a">>)>>,
                  <<"due_date", Some("2025-03-03")>>,
                  <<"update_date_time", Some("2025-04-04")>> >>)
DocTasks == {TaskBare, TaskFull}

ColumnBare == ColumnMetadata(<< <<"name", Some("A")>> >>)
ColumnFull ==
    ColumnMetadata(<< <<"name", Some("B")>>, <<"state", Some("IN_PROGRESS")>>,
                      <<"icon", Some("star")>>, <<"sort_field", Some("DUE_DATE")>>,
                      <<"sort_order", Some("DESC")>>, <<"manual_sort", Some(FALSE)>> >>)
DocColumns == {ColumnBare, ColumnFull}

WidthItems == {<<"A", 100>>, <<"B", 200>>}
Widths ==
    {d \in ListsUpTo(WidthItems, MaxLen) :
        \A i, j \in 1..Len(d) : d[i][1] = d[j][1] => i = j}

OneOf(S) == {Some(x) : x \in S}
OptOneOf(S) == {None} \cup OneOf(S)

\* The values a call gives to a field.
Values(f) ==
    CASE f = "start_time" -> OneOf({"T09", "T10"})
      [] f = "end_time" -> OptOneOf({"T11"})
      [] f = "task" -> OneOf({"Write docs"})
      [] f = "status" -> OptOneOf({"To Do", "Done"})
      [] f = "timer_entries" -> OptOneOf(ListsUpTo(TimerEntries, MaxLen))
      [] f = "target_time" -> OptOneOf({"8h"})
      [] f = "tags" -> OptOneOf(ListsUpTo({"#a", "#b"}, MaxLen))
      [] f = "due_date" -> OptOneOf({"2025-01-01T00:00:00Z"})
      [] f = "update_date_time" -> OptOneOf({"2025-02-02T00:00:00Z"})
      [] f = "name" -> OneOf({"A", "B"})
      [] f = "state" -> OneOf(DOMAIN ColumnState)
      [] f = "icon" -> OptOneOf({"star"})
      [] f = "sort_field" -> OptOneOf(DOMAIN SortField)
      [] f = "sort_order" -> OptOneOf(DOMAIN SortOrder)
      [] f = "manual_sort" -> OptOneOf({TRUE, FALSE})
      [] f = "tasks" -> OptOneOf({WithIds(l) : l \in ListsUpTo(DocTasks, MaxLen)})
      [] f = "columns" -> OptOneOf(ListsUpTo({"A", "B"}, MaxLen))
      [] f = "column_metadata" -> OptOneOf(ListsUpTo(DocColumns, MaxLen))
      [] f = "collapsed_columns" -> OptOneOf(ListsUpTo({"A", "B"}, MaxLen))
      [] f = "view" -> OptOneOf(DOMAIN KanbanView)
      [] f = "slim_mode" -> OptOneOf({TRUE, FALSE})
      [] f = "column_widths" -> OptOneOf(Widths)

\* One value of each field, none of them None, the lists out of sorted order.
Canon(f) ==
    CASE f = "start_time" -> Some("T09")
      [] f = "end_time" -> Some("T11")
      [] f = "task" -> Some("Write docs")
      [] f = "status" -> Some("To Do")
      [] f = "timer_entries" -> Some(<<TimerStopped, TimerRunning>>)
      [] f = "target_time" -> Some("8h")
      [] f = "tags" -> Some(<<"#b", "#a">>)
      [] f = "due_date" -> Some("2025-01-01T00:00:00Z")
      [] f = "update_date_time" -> Some("2025-02-02T00:00:00Z")
      [] f = "name" -> Some("A")
      [] f = "state" -> Some("PENDING")
      [] f = "icon" -> Some("star")
      [] f = "sort_field" -> Some("TIME_SPENT")
      [] f = "sort_order" -> Some("ASC")
      [] f = "manual_sort" -> Some(FALSE)
      [] f = "tasks" -> Some(WithIds(<<TaskFull, TaskBare>>))
      [] f = "columns" -> Some(<<"B", "A">>)
      [] f = "column_metadata" -> Some(<<ColumnFull, ColumnBare>>)
      [] f = "collapsed_columns" -> Some(<<"B">>)
      [] f = "view" -> Some("TABLE")
      [] f = "slim_mode" -> Some(FALSE)
      [] f = "column_widths" -> Some(<< <<"B", 200>>, <<"A", 100>> >>)

\* The fields named in S, in declaration order.
InOrder(cls, S) == SelectSeq(Fields(cls), LAMBDA f : f \in S)

RECURSIVE Perms(_)
Perms(S) ==
    IF S = {} THEN {<< >>}
    ELSE UNION {{<<f>> \o p : p \in Perms(S \ {f})} : f \in S}

WithCanon(names) == [i \in 1..Len(names) |-> <<names[i], Canon(names[i])>>]

RECURSIVE WithValues(_)
WithValues(names) ==
    IF Len(names) = 0 THEN {<< >>}
    ELSE {<< <<names[1], x>> >> \o rest :
            x \in Values(names[1]), rest \in WithValues(Tail(names))}

\* Any of the defaulted fields named, each with its one value, in declaration order.
PresenceCalls(cls) ==
    {WithCanon(InOrder(cls, Required(cls) \cup S)) : S \in SUBSET Defaulted(cls)}

\* At most MaxKw of the defaulted fields named, the arguments in any order.
OrderCalls(cls) ==
    {WithCanon(p) :
        p \in UNION {Perms(Required(cls) \cup S) :
                        S \in {T \in SUBSET Defaulted(cls) : Cardinality(T) <= MaxKw}}}

\* At most MaxVaried of the defaulted fields named, each argument of any value.
ValueCalls(cls) ==
    UNION {WithValues(InOrder(cls, Required(cls) \cup S)) :
              S \in {T \in SUBSET Defaulted(cls) : Cardinality(T) <= MaxVaried}}

Calls(cls) == PresenceCalls(cls) \cup OrderCalls(cls) \cup ValueCalls(cls)

\* simple_tasks of example.py: each a KanbanTask(task=..., status=...), and some
\* with tags.
SimpleTaskCalls ==
    {<< <<"task", Some("Task 1")>>, <<"status", Some("todo")>> >>,
     << <<"task", Some("Task 2")>>, <<"status", Some("in progress")>> >>,
     << <<"task", Some("Task 3")>>, <<"status", Some("done")>>,
        <<"tags", Some(<<"#b", "#a">>)>> >>}

NoReturn == [op |-> "none", val |-> PyNone, text |-> ""]

InitRecord ==
    \E cls \in Classes : \E kw \in Calls(cls) :
        /\ kwargs = kw
        /\ rec = [cls |-> cls, obj |-> Construct(cls, kw)]

InitSimple ==
    \E l \in ListsUpTo(SimpleTaskCalls, MaxLen) :
        /\ kwargs = l
        /\ rec = [cls |-> "list", obj |-> WithIds([i \in 1..Len(l) |-> KanbanTask(l[i])])]

Init ==
    /\ InitRecord \/ InitSimple
    /\ ret = [t \in Threads |-> NoReturn]
    /\ muts = 0

----------------------------------------------------------------------------
(* The operations. A call reads the record and writes nothing but its result. *)

Returns(t, op, val, text) ==
    /\ ret[t].op = "none"
    /\ ret' = [ret EXCEPT ![t] = [op |-> op, val |-> val, text |-> text]]

Call_TimerEntry_to_dict(t) ==
    /\ rec.cls = "TimerEntry"
    /\ Returns(t, "to_dict", TimerEntry_to_dict(rec.obj), "")
    /\ UNCHANGED <<kwargs, rec, muts>>

Call_KanbanTask_to_dict(t) ==
    /\ rec.cls = "KanbanTask"
    /\ Returns(t, "to_dict", KanbanTask_to_dict(rec.obj), "")
    /\ UNCHANGED <<kwargs, rec, muts>>

Call_ColumnMetadata_to_dict(t) ==
    /\ rec.cls = "ColumnMetadata"
    /\ Returns(t, "to_dict", ColumnMetadata_to_dict(rec.obj), "")
    /\ UNCHANGED <<kwargs, rec, muts>>

\* As Call_KanbanData_to_dict below, for a to_dict that first sets a tasks field
\* that is None to the empty list (`self.tasks = self.tasks or []`).
Call_KanbanData_to_dict_normalising(t) ==
    /\ rec.cls = "KanbanData"
    /\ rec' = [rec EXCEPT !.obj.tasks = IF @ = None THEN Some(<< >>) ELSE @]
    /\ Returns(t, "to_dict", KanbanData_to_dict(rec'.obj), "")
    /\ UNCHANGED <<kwargs, muts>>

Call_KanbanData_to_dict(t) ==
    /\ rec.cls = "KanbanData"
    /\ Returns(t, "to_dict", KanbanData_to_dict(rec.obj), "")
    /\ UNCHANGED <<kwargs, rec, muts>>

\* to_json: val is the dict handed to json.dumps, text the string returned.
Call_KanbanData_to_json(t) ==
    /\ rec.cls = "KanbanData"
    /\ LET d == KanbanData_to_dict(rec.obj)
       IN  Returns(t, "to_json", d, json_dumps(d, rec, DefaultIndent))
    /\ UNCHANGED <<kwargs, rec, muts>>

\* main's simple format: val is the list handed to json.dumps, text simple_json.
Call_simple_format(t) ==
    /\ rec.cls = "list"
    /\ LET l == simple_format(rec.obj)
       IN  Returns(t, "simple", l, json_dumps(l, rec, DefaultIndent))
    /\ UNCHANGED <<kwargs, rec, muts>>

Next ==
    \E t \in Threads :
        \/ Call_TimerEntry_to_dict(t)
        \/ Call_KanbanTask_to_dict(t)
        \/ Call_ColumnMetadata_to_dict(t)
        \/ Call_KanbanData_to_dict(t)
        \/ Call_KanbanData_to_json(t)
        \/ Call_simple_format(t)

Spec == Init /\ [][Next]_vars

----------------------------------------------------------------------------
(* A caller changing a value that to_dict returned to it. The caller holds *)
(* the returned dict and reaches every list and dict inside it. A change   *)
(* to an object the call created stays in the returned value; a change to  *)
(* an object a record field holds (a "ref") is a change to the record.     *)

RECURSIVE Paths(_)
Paths(val) ==
    CASE val.t = "dict" ->
            {<< >>} \cup UNION {{<<val.v[i][1]>> \o p : p \in Paths(val.v[i][2])} :
                                  i \in 1..Len(val.v)}
      [] val.t = "list" ->
            {<< >>} \cup UNION {{<<i>> \o p : p \in Paths(val.v[i])} : i \in 1..Len(val.v)}
      [] val.t = "ref" -> {<< >>}
      [] OTHER -> {}

RECURSIVE GetAt(_, _)
GetAt(val, path) ==
    IF Len(path) = 0 THEN val
    ELSE IF val.t = "dict" THEN GetAt(GetItem(val, Head(path)), Tail(path))
    ELSE GetAt(val.v[Head(path)], Tail(path))

RECURSIVE PutAt(_, _, _)
PutAt(val, path, new) ==
    IF Len(path) = 0 THEN new
    ELSE IF val.t = "dict"
    THEN PyDict([i \in 1..Len(val.v) |->
                    IF val.v[i][1] = Head(path)
                    THEN <<val.v[i][1], PutAt(val.v[i][2], Tail(path), new)>>
                    ELSE val.v[i]])
    ELSE PyList([i \in 1..Len(val.v) |->
                    IF i = Head(path) THEN PutAt(val.v[i], Tail(path), new) ELSE val.v[i]])

\* The record with the object r names replaced by new.
Store(root, r, new) ==
    IF r.oid = 0 THEN [root EXCEPT !.obj[r.field] = Some(new)]
    ELSE [root EXCEPT !.obj.tasks[1][r.oid][r.field] = Some(new)]

\* returned[...].append("x")
CallerAppends(t, path) ==
    /\ muts < MaxMut
    /\ ret[t].op = "to_dict"
    /\ path \in Paths(ret[t].val)
    /\ LET target == GetAt(ret[t].val, path)
       IN  \/ /\ target.t = "list"
              /\ ret' = [ret EXCEPT ![t].val =
                            PutAt(@, path, PyList(Append(target.v, PyStr("x"))))]
              /\ rec' = rec
           \/ /\ target.t = "ref"
              /\ target.v.field # "column_widths"
              /\ rec' = Store(rec, target.v, Append(Deref(rec, target.v), "x"))
              /\ ret' = ret
    /\ muts' = muts + 1
    /\ UNCHANGED kwargs

\* returned[...]["Z"] = 50
CallerSetsItem(t, path) ==
    /\ muts < MaxMut
    /\ ret[t].op = "to_dict"
    /\ path \in Paths(ret[t].val)
    /\ LET target == GetAt(ret[t].val, path)
       IN  \/ /\ target.t = "dict"
              /\ ret' = [ret EXCEPT ![t].val = PutAt(@, path, SetItem(target, "Z", PyInt(50)))]
              /\ rec' = rec
           \/ /\ target.t = "ref"
              /\ target.v.field = "column_widths"
              /\ rec' = Store(rec, target.v, Append(Deref(rec, target.v), <<"Z", 50>>))
              /\ ret' = ret
    /\ muts' = muts + 1
    /\ UNCHANGED kwargs

NextAlias ==
    \/ Next
    \/ \E t \in Threads : \E path \in Paths(ret[t].val) : CallerAppends(t, path)
    \/ \E t \in Threads : \E path \in Paths(ret[t].val) : CallerSetsItem(t, path)

SpecAlias == Init /\ [][NextAlias]_vars

----------------------------------------------------------------------------
(* The vocabulary of the properties *)

\* The wire key of a field: the renaming table, and its own name otherwise.
Wire(f) ==
    CASE f = "start_time" -> "startTime"
      [] f = "end_time" -> "endTime"
      [] f = "timer_entries" -> "timerEntries"
      [] f = "target_time" -> "targetTime"
      [] f = "due_date" -> "dueDate"
      [] f = "update_date_time" -> "updateDateTime"
      [] f = "sort_field" -> "sortField"
      [] f = "sort_order" -> "sortOrder"
      [] f = "manual_sort" -> "manualSort"
      [] f = "column_metadata" -> "columnMetadata"
      [] f = "collapsed_columns" -> "collapsedColumns"
      [] f = "slim_mode" -> "slimMode"
      [] f = "column_widths" -> "columnWidths"
      [] OTHER -> f

FieldSet(cls) == {Fields(cls)[i] : i \in 1..Len(Fields(cls))}

\* The fields that may be None. ColumnMetadata.state has a default and is never None.
OptionalFields(cls) == Defaulted(cls) \ {"state"}

StrFields == {"end_time", "status", "target_time", "due_date", "update_date_time", "icon"}
BoolFields == {"manual_sort", "slim_mode"}
StrListFields == {"tags", "columns", "collapsed_columns"}
RecordListFields == {"timer_entries", "tasks", "column_metadata"}
EnumFields == {"sort_field", "sort_order", "view"}

EnumOf(f) ==
    CASE f = "state" -> ColumnState
      [] f = "sort_field" -> SortField
      [] f = "sort_order" -> SortOrder
      [] f = "view" -> KanbanView

Min(a, b) == IF a <= b THEN a ELSE b

Called(t) == ret[t].op # "none"

\* What the caller reads in the value thread t's call converted the record to.
View(t) == Resolve(ret[t].val, rec)

\* The records converted, each with the dict it was converted to: the record
\* itself and the records nested in it, at every depth.
Node(cls, obj, out) == [cls |-> cls, obj |-> obj, out |-> out]

Children(cls, f, obj, out) ==
    IF obj[f] # None /\ HasKey(out, Wire(f)) /\ GetItem(out, Wire(f)).t = "list"
    THEN {Node(cls, obj[f][1][i], GetItem(out, Wire(f)).v[i]) :
             i \in 1..Min(Len(obj[f][1]), Len(GetItem(out, Wire(f)).v))}
    ELSE {}

TaskNodes(obj, out) ==
    {Node("KanbanTask", obj, out)} \cup Children("TimerEntry", "timer_entries", obj, out)

DataNodes(obj, out) ==
    {Node("KanbanData", obj, out)}
    \cup Children("ColumnMetadata", "column_metadata", obj, out)
    \cup UNION {TaskNodes(n.obj, n.out) : n \in Children("KanbanTask", "tasks", obj, out)}

Nodes(t) ==
    CASE rec.cls = "TimerEntry" -> {Node("TimerEntry", rec.obj, View(t))}
      [] rec.cls = "KanbanTask" -> TaskNodes(rec.obj, View(t))
      [] rec.cls = "ColumnMetadata" -> {Node("ColumnMetadata", rec.obj, View(t))}
      [] rec.cls = "KanbanData" -> DataNodes(rec.obj, View(t))
      [] rec.cls = "list" ->
            UNION {TaskNodes(rec.obj[i], View(t).v[i]) :
                      i \in 1..Min(Len(rec.obj), Len(View(t).v))}

\* The value a field's value is emitted as, nested records apart.
Plain(f, x) ==
    CASE f \in StrFields -> PyStr(x)
      [] f \in BoolFields -> PyBool(x)
      [] f \in EnumFields -> PyStr(EnumOf(f)[x])
      [] f \in StrListFields -> PyList([i \in 1..Len(x) |-> PyStr(x[i])])
      [] f = "column_widths" -> PyDict([i \in 1..Len(x) |-> <<x[i][1], PyInt(x[i][2])>>])

\* The dict a nested record of list field f is converted to.
ElemToDict(f, x) ==
    CASE f = "timer_entries" -> TimerEntry_to_dict(x)
      [] f = "tasks" -> Resolve(KanbanTask_to_dict(x), rec)
      [] f = "column_metadata" -> ColumnMetadata_to_dict(x)

\* Field f of n is a list, and n's dict holds under f's wire key a list of the same
\* length whose i-th element is the conversion of the field's i-th element.
ListEmitted(n, f) ==
    /\ HasKey(n.out, Wire(f))
    /\ LET x == n.obj[f][1]
           out == GetItem(n.out, Wire(f))
       IN  /\ out.t = "list"
           /\ Len(out.v) = Len(x)
           /\ \A i \in 1..Len(x) :
                 out.v[i] = IF f \in RecordListFields THEN ElemToDict(f, x[i])
                            ELSE PyStr(x[i])

----------------------------------------------------------------------------
(* The properties *)

\* C1: in the value to_dict returns, at every depth, a record's optional field
\* that is None has no entry under its wire key, and no key is mapped to null.
C1_UnsetFieldsOmitted ==
    \A t \in Threads : Called(t) =>
        \A n \in Nodes(t) :
            /\ \A f \in OptionalFields(n.cls) :
                  n.obj[f] = None => ~HasKey(n.out, Wire(f))
            /\ \A i \in 1..Len(n.out.v) : n.out.v[i][2].t # "none"

\* C2: in the value to_dict returns, at every depth, a record's optional field
\* that is set (an empty list and False included) has an entry under its wire key,
\* whose value is the field's value, nested records replaced by their to_dict.
C2_SetFieldsEmitted ==
    \A t \in Threads : Called(t) =>
        \A n \in Nodes(t) : \A f \in OptionalFields(n.cls) :
            n.obj[f] # None =>
                /\ HasKey(n.out, Wire(f))
                /\ IF f \in RecordListFields THEN ListEmitted(n, f)
                   ELSE GetItem(n.out, Wire(f)) = Plain(f, n.obj[f][1])

\* A task constructed with tags=[] was converted, and its dict holds "tags": [].
C2_Witness ==
    /\ rec.cls = "KanbanTask"
    /\ rec.obj.tags = Some(<< >>)
    /\ Called("t1")
    /\ HasKey(View("t1"), "tags")
    /\ GetItem(View("t1"), "tags") = PyList(<< >>)

\* C3: every key of every dict to_dict returns is the wire key of a field of the
\* record the dict converts: the camelCase key of the table for the 13 renamed
\* fields, and no snake_case name of a renamed field; no key occurs twice.
C3_OnlyWireKeys ==
    /\ Cardinality({f \in UNION {FieldSet(cls) : cls \in Classes} : Wire(f) # f}) = 13
    /\ \A t \in Threads : Called(t) =>
          \A n \in Nodes(t) :
              /\ KeySet(n.out) \subseteq {Wire(f) : f \in FieldSet(n.cls)}
              /\ \A f \in FieldSet(n.cls) : Wire(f) # f => ~HasKey(n.out, f)
              /\ Cardinality(KeySet(n.out)) = Len(n.out.v)

\* A KanbanData with its seven fields set was converted: timer entries, tasks,
\* column metadata and the document are all among the converted records.
C3_Witness ==
    /\ rec.cls = "KanbanData"
    /\ \A f \in FieldSet("KanbanData") : rec.obj[f] # None
    /\ ret["t1"].op = "to_dict"
    /\ {n.cls : n \in Nodes("t1")} = Classes
    /\ Cardinality(KeySet(View("t1"))) = 7

\* C4: an enumerated field is emitted as its member's string tag, one of the
\* documented tags, never the member's name; distinct members have distinct tags.
C4_EnumsEmitTags ==
    /\ \A f \in EnumFields \cup {"state"} :
          /\ \A a, b \in DOMAIN EnumOf(f) : EnumOf(f)[a] = EnumOf(f)[b] => a = b
          /\ {EnumOf(f)[m] : m \in DOMAIN EnumOf(f)} \cap DOMAIN EnumOf(f) = {}
    /\ {ColumnState[m] : m \in DOMAIN ColumnState} = {"todo", "in-progress", "pending", "done"}
    /\ {SortField[m] : m \in DOMAIN SortField}
          = {"updateDateTime", "dueDate", "title", "timeSpent"}
    /\ {SortOrder[m] : m \in DOMAIN SortOrder} = {"asc", "desc"}
    /\ {KanbanView[m] : m \in DOMAIN KanbanView} = {"horizontal", "vertical", "table"}
    /\ \A t \in Threads : Called(t) =>
          \A n \in Nodes(t) :
              /\ n.cls = "ColumnMetadata" =>
                    /\ HasKey(n.out, "state")
                    /\ GetItem(n.out, "state") = PyStr(ColumnState[n.obj.state])
              /\ \A f \in EnumFields \cap FieldSet(n.cls) :
                    n.obj[f] # None =>
                        /\ HasKey(n.out, Wire(f))
                        /\ GetItem(n.out, Wire(f)) = PyStr(EnumOf(f)[n.obj[f][1]])

\* A column in state IN_PROGRESS, sorted by DUE_DATE, was converted to a dict with
\* "state": "in-progress" and "sortField": "dueDate".
C4_Witness ==
    /\ rec.cls = "KanbanData"
    /\ Called("t2")
    /\ \E n \in Nodes("t2") :
          /\ n.cls = "ColumnMetadata"
          /\ n.obj.state = "IN_PROGRESS"
          /\ n.obj.sort_field = Some("DUE_DATE")
          /\ GetItem(n.out, "state") = PyStr("in-progress")
          /\ GetItem(n.out, "sortField") = PyStr("dueDate")

\* C5: every list field that is set is emitted as a list of the same length whose
\* i-th element is the conversion of the field's i-th element; so is a list of
\* tasks converted to a bare array by the simple format.
C5_SequencesKeepOrder ==
    \A t \in Threads : Called(t) =>
        /\ \A n \in Nodes(t) :
              \A f \in (StrListFields \cup RecordListFields) \cap FieldSet(n.cls) :
                  n.obj[f] # None => ListEmitted(n, f)
        /\ rec.cls = "list" =>
              /\ View(t).t = "list"
              /\ Len(View(t).v) = Len(rec.obj)
              /\ \A i \in 1..Len(rec.obj) :
                    View(t).v[i] = Resolve(KanbanTask_to_dict(rec.obj[i]), rec)

\* A task with timer entries [stopped, running] and tags ["#b", "#a"] was converted:
\* its dict holds the two entries and the two tags in that order.
C5_Witness ==
    /\ rec.cls = "KanbanTask"
    /\ rec.obj.tags = Some(<<"#b", "#a">>)
    /\ rec.obj.timer_entries = Some(<<TimerStopped, TimerRunning>>)
    /\ Called("t1")
    /\ GetItem(View("t1"), "tags") = PyList(<<PyStr("#b"), PyStr("#a")>>)
    /\ GetItem(View("t1"), "timerEntries")
          = PyList(<<TimerEntry_to_dict(TimerStopped), TimerEntry_to_dict(TimerRunning)>>)

\* C6: the keys of the dict KanbanData.to_dict returns are exactly the wire keys
\* of the fields that are set; with no field set it is the empty dict, and with
\* only columns=["A", "B"] it is {"columns": ["A", "B"]}.
C6_TopLevelKeys ==
    \A t \in Threads : (Called(t) /\ rec.cls = "KanbanData") =>
        /\ KeySet(View(t)) = {Wire(f) : f \in {g \in FieldSet("KanbanData") : rec.obj[g] # None}}
        /\ Len(View(t).v) = Cardinality(KeySet(View(t)))
        /\ rec.obj = KanbanData(<< >>) => View(t) = PyDict(<< >>)
        /\ rec.obj = KanbanData(<< <<"columns", Some(<<"A", "B">>)>> >>) =>
              /\ View(t) = PyDict(<< <<"columns", PyList(<<PyStr("A"), PyStr("B")>>)>> >>)
              /\ ret[t].op = "to_json" =>
                    ret[t].text = "{\n  \"columns\": [\n    \"A\",\n    \"B\"\n  ]\n}"

\* A KanbanData constructed with columns=["A", "B"] alone was converted by to_json.
C6_Witness ==
    /\ rec.cls = "KanbanData"
    /\ kwargs = << <<"columns", Some(<<"A", "B">>)>> >>
    /\ ret["t1"].op = "to_json"
    /\ Keys(View("t1")) = <<"columns">>

\* C7: the keys of the dict KanbanTask.to_dict returns are task, status,
\* timerEntries, targetTime, tags, dueDate, updateDateTime, in that order, each
\* optional one only if its field is set, whatever the order of the arguments of
\* the constructor call.
C7_TaskKeyOrder ==
    \A t \in Threads : (Called(t) /\ rec.cls = "KanbanTask") =>
        Keys(View(t))
          = [i \in 1..Len(InOrder("KanbanTask",
                                  {f \in FieldSet("KanbanTask") :
                                      f = "task" \/ rec.obj[f] # None})) |->
                Wire(InOrder("KanbanTask",
                             {f \in FieldSet("KanbanTask") :
                                 f = "task" \/ rec.obj[f] # None})[i])]

\* A task constructed as KanbanTask(due_date=..., status=..., task=...) was
\* converted to {"task": "Write docs", "status": "To Do", "dueDate": "2025-01-01T00:00:00Z"}.
C7_Witness ==
    /\ rec.cls = "KanbanTask"
    /\ kwargs = << <<"due_date", Some("2025-01-01T00:00:00Z")>>,
                   <<"status", Some("To Do")>>,
                   <<"task", Some("Write docs")>> >>
    /\ Called("t1")
    /\ View("t1") = PyDict(<< <<"task", PyStr("Write docs")>>,
                             <<"status", PyStr("To Do")>>,
                             <<"dueDate", PyStr("2025-01-01T00:00:00Z")>> >>)

\* C8: every dict of a ColumnMetadata holds name and state, of a task holds task,
\* of a timer entry holds startTime, each with the field's value; a ColumnMetadata
\* constructed without a state is emitted with "state": "todo".
C8_RequiredFieldsEmitted ==
    \A t \in Threads : Called(t) =>
        /\ \A n \in Nodes(t) :
              /\ n.cls = "ColumnMetadata" =>
                    /\ {"name", "state"} \subseteq KeySet(n.out)
                    /\ GetItem(n.out, "name") = PyStr(n.obj.name)
              /\ n.cls = "KanbanTask" =>
                    /\ HasKey(n.out, "task")
                    /\ GetItem(n.out, "task") = PyStr(n.obj.task)
              /\ n.cls = "TimerEntry" =>
                    /\ HasKey(n.out, "startTime")
                    /\ GetItem(n.out, "startTime") = PyStr(n.obj.start_time)
        /\ (rec.cls = "ColumnMetadata" /\ ~Supplied(kwargs, "state")) =>
              /\ HasKey(View(t), "state")
              /\ GetItem(View(t), "state") = PyStr("todo")

\* A ColumnMetadata constructed with a name and an icon but no state was converted.
C8_Witness ==
    /\ rec.cls = "ColumnMetadata"
    /\ ~Supplied(kwargs, "state")
    /\ Supplied(kwargs, "icon")
    /\ Called("t2")
    /\ GetItem(View("t2"), "state") = PyStr("todo")

\* What one call of op returns on the record root, made alone.
Isolated(root, op) ==
    LET val == CASE root.cls = "TimerEntry" -> TimerEntry_to_dict(root.obj)
                 [] root.cls = "KanbanTask" -> KanbanTask_to_dict(root.obj)
                 [] root.cls = "ColumnMetadata" -> ColumnMetadata_to_dict(root.obj)
                 [] root.cls = "KanbanData" -> KanbanData_to_dict(root.obj)
                 [] root.cls = "list" -> simple_format(root.obj)
    IN  [op |-> op, val |-> val,
         text |-> IF op = "to_dict" THEN "" ELSE json_dumps(val, root, DefaultIndent)]

\* C9: a call of to_dict, to_json or the simple format changes no field of the
\* record or of a record nested in it, and what it returns is what a call made
\* alone returns: any two calls of the same operation return equal values.
C9_CallsArePure ==
    [][/\ rec' = rec
       /\ \A t \in Threads :
             ret'[t] # ret[t] => ret'[t] = Isolated(rec, ret'[t].op)
       /\ \A t1, t2 \in Threads :
             ret'[t1].op = ret'[t2].op => ret'[t1] = ret'[t2]]_vars

\* Both threads have called to_json on a KanbanData that holds tasks and columns.
C9_Witness ==
    /\ rec.cls = "KanbanData"
    /\ rec.obj.tasks # None
    /\ rec.obj.columns # None
    /\ ret["t1"].op = "to_json"
    /\ ret["t2"].op = "to_json"
    /\ ret["t1"].text = ret["t2"].text

\* C10: a caller's change to a value to_dict returned changes no field of the
\* record (so a later to_dict returns what the first one did).
C10_ReturnedValueDetached ==
    [][muts' # muts => rec' = rec]_vars

====
